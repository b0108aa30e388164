------------------------------ MODULE MCUpkeep ------------------------------
(* Two objects under one refresher: one may publish two images, the other   *)
(* is stalled and publishes nothing.                                        *)
EXTENDS Attestation

MCOf == [i \in {"a", "b", "c"} |-> "app"]
=============================================================================
