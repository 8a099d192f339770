--------------------------- MODULE MCBlockLookup ---------------------------
(***************************************************************************)
(* BlockLookup with a VALUE, a MAP and a TIMER state, and one the header   *)
(* does not register; the empty key, and as a key and as a map key one     *)
(* whose bytes hold the values of a namespace and of an empty map key.     *)
(***************************************************************************)
EXTENDS BlockLookup

MCKeyTypes == {"String", "Kryo"}
MCKeys == {<<>>, <<0, 1>>}
MCMapKeys == {<<>>, <<5>>, <<0, 1>>}
MCStateIds == 0 .. 3
MCStateType == [id \in 0 .. 3 |-> CASE id = 0 -> "MAP" [] id = 2 -> "TIMER" [] OTHER -> "VALUE"]
MCNamespaceLen == [id \in 0 .. 3 |-> IF id = 1 THEN 2 ELSE 1]
MCNamed == {0, 1}
=============================================================================
