----------------------------- MODULE MCCountJobs -----------------------------
(***************************************************************************)
(* CountJobs with two operators that contend for one slot, and two         *)
(* handlers. No symmetry: the run checks liveness.                         *)
(***************************************************************************)
EXTENDS CountJobs

CONSTANTS a, b, h1, h2

TwoOps == {a, b}
TwoHandlers == {h1, h2}
=============================================================================
