----------------------------- MODULE MCTreeSearch -----------------------------
(* Two operators: keys over three key-groups, the first with a hashable key   *)
(* type, the second (a POJO key) without.                                     *)
EXTENDS TreeSearch

Key(g, n) == [kg |-> g, name |-> n]

MCItems == <<<<Key(0, "a"), Key(0, "b"), Key(1, "c"), Key(2, "d")>>,
             <<Key(0, "c"), Key(1, "a")>>>>
MCSought == <<{0, 1, 2}, {0}>>

MCFilter(kind, names, plain, lo, hi) ==
    [kind |-> kind, names |-> names, plain |-> plain, lo |-> lo, hi |-> hi]
MCFilters == {MCFilter("exact", {"a"}, "a", 0, 0),
              MCFilter("pattern", {"a", "c", "d"}, "c", 0, 0),
              MCFilter("range", {}, "", 1, 2)}
==============================================================================
