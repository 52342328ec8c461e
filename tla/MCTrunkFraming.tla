--------------------------- MODULE MCTrunkFraming ---------------------------
(* A small instance of TrunkFraming for TLC: an aligned and an unaligned   *)
(* payload.                                                                *)
EXTENDS TrunkFraming

MessagesMC == {<<7>>, <<7, 1, 7, 1>>}
=============================================================================
