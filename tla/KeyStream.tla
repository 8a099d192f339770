------------------------------ MODULE KeyStream ------------------------------
(***************************************************************************)
(* What a paged walk promises, without pages: the keys of an operator form *)
(* one stream in key-group order; the walk moves a frontier forward over   *)
(* it, and a step hands over, exactly once, every wanted key it moves past *)
(* except those of the key-groups it lists as unreadable.                  *)
(***************************************************************************)
EXTENDS Integers

CONSTANT KeyGroups

VARIABLES keys,        \* the keys the walk is asked for, as <<key-group, ordinal>>
          first,       \* where the walk starts
          front,       \* the frontier, <<key-group, ordinal>>
          times,       \* how often each key was handed over
          rep          \* how often each key-group was listed

svars == <<keys, first, front, times, rep>>

Before(p, q)  == p[1] < q[1] \/ (p[1] = q[1] /\ p[2] < q[2])
NotAfter(p, q) == ~Before(q, p)

SInit ==
    /\ front = first
    /\ \A p \in keys : times[p] = 0
    /\ rep = [k \in KeyGroups |-> 0]

\* The frontier moves to `to`; the key-groups of `skipped` are listed. They
\* lie behind the new frontier and not behind the old one.
Advance(to, skipped) ==
    /\ UNCHANGED <<keys, first>>
    /\ NotAfter(front, to)
    /\ \A k \in skipped : front[1] <= k /\ k < to[1]
    /\ front' = to
    /\ rep' = [k \in KeyGroups |-> IF k \in skipped THEN rep[k] + 1 ELSE rep[k]]
    /\ \A p \in keys :
          times'[p] = IF NotAfter(front, p) /\ Before(p, to) /\ p[1] \notin skipped
                      THEN times[p] + 1
                      ELSE times[p]

\* The key-groups a step lists.
Listed == {k \in KeyGroups : rep'[k] # rep[k]}

SNext == Advance(front', Listed)

SSpec == SInit /\ [][SNext]_svars
=============================================================================
