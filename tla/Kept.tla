-------------------------------- MODULE Kept --------------------------------
(***************************************************************************)
(* What retain, filter and a removal leave of a list, by its positions:    *)
(* SelectSeq for a set, in a form that can be reasoned about.              *)
(***************************************************************************)
EXTENDS Integers, Sequences, FiniteSets, Functions

\* The positions of s that hold an element of S, and how many there are up to i.
KeptAt(s, S) == {i \in DOMAIN s : s[i] \in S}
UpTo(I, i)   == Cardinality({j \in I : j <= i})

\* The elements of s that are in S, in the order of s.
Keep(s, S) ==
    LET I == KeptAt(s, S)
    IN  [k \in 1 .. Cardinality(I) |-> s[CHOOSE i \in I : UpTo(I, i) = k]]
=============================================================================
