-------------------------------- MODULE Segments --------------------------------
(* CoverUp's code segments (segment.py, get_missing_coverage) for one source file:  *)
(* lines that lack coverage are visited in ascending order, each one that is in no   *)
(* segment yet chooses the function or class around it; a segment is then made of     *)
(* each that was chosen, with the lines and branches that it is to cover.             *)
EXTENDS Integers, FiniteSets, FiniteSetsExt

CONSTANTS Files,     \* what is known of a file: its functions and classes, and the lines
                     \* and branches that lack coverage
          LineLimit  \* --line-limit

(* An element is a function or class: its first line with decorators, the line of   *)
(* its name, and the line after its last.                                           *)
Element == [kind : {"function", "class"}, begin : Nat, name : Nat, end : Nat]
Inside(e, f) == f.name < e.begin /\ e.end <= f.end
Apart(e, f) == e.end <= f.begin \/ f.end <= e.begin

(* What Python's syntax guarantees: elements lie inside each other or apart. A branch  *)
(* is the line that it leaves and the line that it reaches, 0 when it leaves the code.  *)
ConstantsType ==
  /\ LineLimit \in Nat
  /\ \A file \in Files :
       /\ IsFiniteSet(file.tree) /\ file.tree \subseteq Element
       /\ IsFiniteSet(file.missing) /\ file.missing \subseteq Nat \ {0}
       /\ IsFiniteSet(file.branches) /\ file.branches \subseteq (Nat \ {0}) \X Nat
       /\ \A e \in file.tree : 0 < e.begin /\ e.begin <= e.name /\ e.name < e.end
       /\ \A e, f \in file.tree : e = f \/ Inside(e, f) \/ Inside(f, e) \/ Apart(e, f)

VARIABLES tree,      \* the file's functions and classes
          missing,   \* missing_lines of the file
          branches,  \* its missing_branches
          todo,      \* the lines of interest that are still to be visited
          ranges,    \* line_ranges: the chosen elements, each with its context
          segments   \* code_segs

vars == <<tree, missing, branches, todo, ranges, segments>>

LinesOf(e) == e.begin .. e.end - 1

(* lines_of_interest: lines that are missing, and both ends of a missing branch.     *)
Interest == (missing \cup UNION {{b[1], b[2]} : b \in branches}) \ {0}

Init ==
  /\ \E file \in Files :
       tree = file.tree /\ missing = file.missing /\ branches = file.branches
  /\ todo = Interest
  /\ ranges = {} /\ segments = {}
--------------------------------------------------------------------------------
(* The functions and classes around a line, from the outermost inwards.            *)
Around(line) == {e \in tree : line \in LinesOf(e)}
Innermost(e, line) == \A f \in Around(line) : ~Inside(f, e)

TooLarge(e) == e.kind = "class" /\ e.end - e.begin > LineLimit

(* find_enclosing, and the loop that looks into classes above the limit: the first  *)
(* element, from the outermost inwards, that may be a segment, or the last one.     *)
Stops(line) == {e \in Around(line) : ~TooLarge(e) \/ Innermost(e, line)}
Enclosing(line) == {e \in Stops(line) : \A f \in Stops(line) : ~Inside(e, f)}

(* The heads of the classes that were looked into.                                 *)
Context(e) == {<<f.begin, f.name + 1>> : f \in {g \in tree : Inside(e, g)}}

(* A slip: a class is a segment whatever its size.                                 *)
FoundAnyway(line) == Enclosing(line)

(* A class that is too large all the same makes no segment.                        *)
Found(line) == {e \in Enclosing(line) : ~TooLarge(e)}

(* Lines in segments are skipped.                                                  *)
InSegments(line) == \E range \in ranges : line \in LinesOf(range.element)

Visit ==
  /\ todo # {}
  /\ LET line == Min(todo)
     IN /\ todo' = todo \ {line}
        /\ ranges' = ranges \cup
             IF InSegments(line) THEN {}
             ELSE {[element |-> e, context |-> Context(e)] : e \in Found(line)}
  /\ UNCHANGED <<tree, missing, branches, segments>>

(* A branch belongs to the segment in which it begins.                              *)
Segment(range) ==
  [element |-> range.element,
   context |-> range.context,
   missing |-> missing \cap LinesOf(range.element),
   branches |-> {b \in branches : b[1] \in LinesOf(range.element)}]

MakeSegments ==
  /\ todo = {} /\ segments = {} /\ ranges # {}
  /\ segments' = {Segment(range) : range \in ranges}
  /\ UNCHANGED <<tree, missing, branches, todo, ranges>>

Finished == todo = {} /\ (ranges = {} \/ segments # {}) /\ UNCHANGED vars

Next == Visit \/ MakeSegments \/ Finished

Spec == Init /\ [][Next]_vars
--------------------------------------------------------------------------------
(* The parts of an excerpt that are shown for a segment.                           *)
Shown(s) == s.context \cup {<<s.element.begin, s.element.end>>}

(* A line that can be in a segment: one of a function, or of a class within the limit. *)
CanBeCovered(line) == \E e \in Around(line) : ~TooLarge(e)

(* What CoverUp asks tests for. A segment of covered code is made when a branch that    *)
(* begins elsewhere should reach it (line 100), and it has nothing to cover.          *)
AskedFor(s) == s.missing # {} \/ s.branches # {}
ReachedFromElsewhere(s) ==
  \E b \in branches : b[2] \in LinesOf(s.element) /\ b[1] \notin LinesOf(s.element)

(* Segments are what CoverUp may work on concurrently and what a checkpoint refers    *)
(* to by its lines: no two overlap, and an excerpt shows no line twice. When they are   *)
(* made, each line that lacks coverage and can be in a segment is asked for in exactly   *)
(* one of them, and so is each branch that begins in such a line; lines outside all     *)
(* functions, or directly in a class above the limit, are asked for in none. A segment   *)
(* that asks for nothing is reached by a missing branch from elsewhere.              *)
GapsAreSegmented ==
  /\ \A s, t \in ranges : s = t \/ Apart(s.element, t.element)
  /\ \A s \in ranges : \A p, q \in Shown(s) : p = q \/ p[2] <= q[1] \/ q[2] <= p[1]
  /\ todo = {} /\ (ranges # {} => segments # {}) =>
       /\ \A line \in missing :
            IF CanBeCovered(line) THEN \E s \in segments : \A t \in segments :
                                         line \in t.missing <=> t = s
            ELSE \A t \in segments : line \notin t.missing
       /\ \A b \in branches :
            IF CanBeCovered(b[1]) THEN \E s \in segments : \A t \in segments :
                                         b \in t.branches <=> t = s
            ELSE \A t \in segments : b \notin t.branches
       /\ \A s \in segments : AskedFor(s) \/ ReachedFromElsewhere(s)
================================================================================
