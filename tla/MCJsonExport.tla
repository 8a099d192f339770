---------------------------- MODULE MCJsonExport ----------------------------
(***************************************************************************)
(* JsonExport with one explorer on its savepoint.                          *)
(***************************************************************************)
EXTENDS JsonExport

CONSTANTS e1

One == {e1}
=============================================================================
