---------------------------- MODULE MCWebServer ----------------------------
(***************************************************************************)
(* WebServer on small instances. Clients are interchangeable; the liveness *)
(* run uses no symmetry.                                                   *)
(***************************************************************************)
EXTENDS WebServer

CONSTANTS c1, c2, c3

Two == {c1, c2}
Three == {c1, c2, c3}
Symmetry == Permutations(Three)
=============================================================================
