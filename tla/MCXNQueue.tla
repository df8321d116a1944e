----------------------------- MODULE MCXNQueue -----------------------------
(* Constants for model checking XNQueue. *)
EXTENDS XNQueue, TLC

CONSTANTS A, B

OneWay     == {<<B, A>>}
AllIndexes == {-1, 1}

\* Threads call the same operations and elements carry no data.
Symmetry == Permutations(Threads) \cup Permutations(Elems)
=============================================================================
