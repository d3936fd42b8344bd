----------------------------- MODULE MCPlanning -----------------------------
(* Values for the constants of Planning.                                   *)
EXTENDS Planning

OneMatrix == {<<2, 2>>, <<0>>}
=============================================================================
