---------------------------- MODULE MCCowMemory -----------------------------
(***************************************************************************)
(* Small instances of CowMemory.  Free pages are interchangeable, so each  *)
(* virtual page gets names of its own to draw from, the lowest free first: *)
(* that leaves few ways of naming the same memory.                         *)
(***************************************************************************)
EXTENDS CowMemory, TLC

CONSTANTS p1, p2, Names

TwoProcs == {p1, p2}
OneProc == {p1}
ProcSymmetry == Permutations(TwoProcs)

\* The i-th name for page v is v * Names + i.
MCFrames == 0 .. VATop * Names - 1

OwnNamesLowestFirst(free, V) ==
    LET Own(v) == {f \in free : f \div Names = v} IN
    IF \E v \in V : Own(v) = {} THEN {} ELSE {[v \in V |-> Min(Own(v))]}

Binary == {0, 1}
One == {1}
None == {}
BrkRange == {0, 2, 3, 5}
=============================================================================
