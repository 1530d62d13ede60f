---------------------------- MODULE MCWordIndex ----------------------------
(* Small repositories for WordIndex. *)
EXTENDS WordIndex

CONSTANTS r, a, b, c, e, f, g

(* Two directories side by side, or one in the other; one file in each, or *)
(* both in one.                                                            *)
Parents == {[d \in {a, b} |-> r], [d \in {a, b} |-> IF d = a THEN r ELSE a]}
Homes == {[x \in {f, g} |-> b], [x \in {f, g} |-> IF x = f THEN a ELSE b]}
SmallTrees == [parent : Parents, home : Homes]

(* A full scan, one with subtree caching, and one with all the limits. *)
ScanModes ==
    {[bypass |-> TRUE,  ignored |-> {},  maxDepth |-> 0, maxPerDir |-> 0],
     [bypass |-> FALSE, ignored |-> {},  maxDepth |-> 0, maxPerDir |-> 1],
     [bypass |-> FALSE, ignored |-> {b}, maxDepth |-> 2, maxPerDir |-> 0]}

(* Two directories with one directory in each. *)
TwinTree == {[parent |-> [d \in {a, b, c, e} |-> IF d = c THEN a ELSE IF d = e THEN b ELSE r],
              home |-> [x \in {f} |-> e]]}
FullScan == {[bypass |-> TRUE, ignored |-> {}, maxDepth |-> 0, maxPerDir |-> 0]}
=============================================================================
