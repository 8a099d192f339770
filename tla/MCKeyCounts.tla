----------------------------- MODULE MCKeyCounts -----------------------------
(***************************************************************************)
(* KeyCounts with two explorers, which are interchangeable.                *)
(***************************************************************************)
EXTENDS KeyCounts

CONSTANTS e1, e2, a

Two == {e1, e2}
OneOp == {a}
Symmetry == Permutations(Two)
=============================================================================
